---- MODULE Spec2Model ----
(***************************************************************************)
(* Model of the heartbeat aggregator (src/api/utils.py) and of the status  *)
(* endpoints (src/api/status.py) of amai-status.                           *)
(*                                                                         *)
(* Conventions                                                             *)
(*  - An optional value (Python None / SQL NULL) is <<>>, a present value  *)
(*    v is <<v>>.                                                          *)
(*  - A datetime is [day, hour, minute]: day is the ordinal of the day     *)
(*    counted from Monday 2024-01-01 (day 0), seconds and microseconds are *)
(*    zero in every sample.                                                *)
(*  - A duration in seconds is an integer number of microseconds, so that  *)
(*    the code's "/ 1000" (milliseconds to seconds) is "* 1000" here.      *)
(*  - A text (str) is the sequence of its character codes; Python compares *)
(*    and sorts texts lexicographically by code.                           *)
(*  - A float percentage p = (n / d) * 100 is kept as the exact fraction   *)
(*    [num |-> 100 * n, den |-> d]; float rounding is not modelled.        *)
(***************************************************************************)
EXTENDS Integers, Sequences, FiniteSets, TLC

VARIABLES
    records,      \* aggregate_heartbeat_data: argument records
    interval,     \* aggregate_heartbeat_data: argument interval
    app_config,   \* aggregate_heartbeat_data: argument app_config
    aggregated,   \* aggregate_heartbeat_data: the returned list
    pc,           \* "call" before the aggregator ran, "done" after
    store,        \* rows of table monitor_records
    now,          \* datetime.now(), in hours
    response,     \* what the last endpoint call returned
    previous,     \* what the get_all_status call before it returned
    frame,        \* the endpoint invocation in progress, step by step
    sessions      \* the sessions SessionLocal() made for that invocation

aggVars == <<records, interval, app_config, aggregated, pc>>
statusVars == <<store, now, response, previous>>
sessVars == <<frame, sessions>>
vars == <<records, interval, app_config, aggregated, pc, store, now, response, previous,
          frame, sessions>>

None == <<>>
Some(v) == <<v>>
Val(o) == o[1]

----------------------------------------------------------------------------
(* Bounds and sample inputs *)

MaxLen == 3
MaxStore == 2
MaxNow == 2

\* datetime samples: Monday 09:10 and 09:50, Tuesday 10:05, next Monday 09:10
Timestamps ==
    { [day |-> 0, hour |-> 9, minute |-> 10],
      [day |-> 0, hour |-> 9, minute |-> 50],
      [day |-> 1, hour |-> 10, minute |-> 5],
      [day |-> 7, hour |-> 9, minute |-> 10] }

\* (is_up, status_code, response_time in microseconds)
Kinds ==
    { [is_up |-> TRUE,  status_code |-> Some(200), response_time |-> Some(200000)],
      [is_up |-> TRUE,  status_code |-> Some(200), response_time |-> Some(300000)],
      [is_up |-> FALSE, status_code |-> Some(500), response_time |-> Some(300000)] }

MonitorRecords ==
    { [timestamp |-> t, is_up |-> k.is_up, status_code |-> k.status_code,
       response_time |-> k.response_time] : t \in Timestamps, k \in Kinds }

Intervals == {"all", "hour", "day", "week"}

AppConfigs ==
    { [degraded_threshold |-> 200],
      [degraded_percentage_threshold |-> 50] }

\* the configured monitors, in configuration order
monitors_config ==
    << [name |-> "web", url |-> "https://web.example"],
       [name |-> "api", url |-> "https://api.example"] >>

\* monitor names found in the table: the configured ones and a removed one
MonitorNames == {"web", "api", "old"}

\* a successful check and a timed out one
Outcomes ==
    { [is_up |-> TRUE,  status_code |-> Some(200), response_time |-> Some(50000)],
      [is_up |-> FALSE, status_code |-> None,      response_time |-> None] }

\* the values of the query parameter hours
Hours == {1, 2}

RECURSIVE SeqsUpTo(_, _)
SeqsUpTo(S, n) ==
    IF n = 0 THEN {<<>>}
    ELSE LET shorter == SeqsUpTo(S, n - 1)
         IN  shorter \cup {Append(s, x) : s \in {q \in shorter : Len(q) = n - 1}, x \in S}

----------------------------------------------------------------------------
(* Python library behaviour used by the code *)

\* dict.get(key, default)
Get(d, key, default) == IF key \in DOMAIN d THEN d[key] ELSE default

\* two decimal digits, zero padded, as character codes
Pad2(n) == <<48 + (n \div 10), 48 + (n % 10)>>

\* datetime.isoformat() of a January 2024 datetime with zero seconds and
\* microseconds: "2024-01-DDTHH:MM:00"
isoformat(t) ==
    <<50, 48, 50, 52, 45, 48, 49, 45>> \o Pad2(t.day + 1) \o <<84>>
        \o Pad2(t.hour) \o <<58>> \o Pad2(t.minute) \o <<58, 48, 48>>

\* minutes from Monday 2024-01-01 00:00 to a datetime, and back
Minutes(t) == (t.day * 24 + t.hour) * 60 + t.minute

OfMinutes(m) == [day |-> m \div (24 * 60), hour |-> (m % (24 * 60)) \div 60, minute |-> m % 60]

\* datetime.weekday(): Monday is 0
weekday(t) == t.day % 7

\* str < str: at the first position where the texts differ the smaller code
\* decides; a proper prefix is smaller
StrLess(a, b) ==
    LET n == IF Len(a) < Len(b) THEN Len(a) ELSE Len(b)
        differ == {i \in 1..n : a[i] # b[i]}
    IN  IF differ = {} THEN Len(a) < Len(b)
        ELSE LET i == CHOOSE i \in differ : \A j \in differ : i <= j
             IN  a[i] < b[i]

\* sorted(keys) of a list of distinct texts
RECURSIVE sorted(_)
sorted(keys) ==
    IF keys = <<>> THEN <<>>
    ELSE LET i == CHOOSE i \in 1..Len(keys) :
                    \A j \in 1..Len(keys) : j = i \/ StrLess(keys[i], keys[j])
         IN  <<keys[i]>> \o sorted(SubSeq(keys, 1, i - 1) \o SubSeq(keys, i + 1, Len(keys)))

----------------------------------------------------------------------------
(* aggregate_heartbeat_data *)

\* "all" branch: app_config.get("degraded_threshold", 200) / 1000, in microseconds
degraded_threshold_all(cfg) == Get(cfg, "degraded_threshold", 200) * 1000

\* a mutant of is_degraded: a slow response counts whether or not the check was up
is_degraded_any(r, cfg) ==
    /\ r.response_time # None
    /\ Val(r.response_time) > degraded_threshold_all(cfg)

\* "all" branch: is_degraded of one record
is_degraded(r, cfg) ==
    /\ r.is_up
    /\ r.response_time # None
    /\ Val(r.response_time) > degraded_threshold_all(cfg)

\* the "all" branch: one node per record, in input order
AggregateAll(recs, cfg) ==
    [i \in 1..Len(recs) |->
        [timestamp |-> isoformat(recs[i].timestamp),
         is_up |-> recs[i].is_up,
         response_time |-> recs[i].response_time,
         status_code |-> recs[i].status_code,
         count |-> 1,
         avg_response_time |-> recs[i].response_time,
         degraded_count |-> IF is_degraded(recs[i], cfg) THEN 1 ELSE 0,
         down_count |-> IF recs[i].is_up THEN 0 ELSE 1]]

\* the start of the bucket a record falls in
BucketStart(r, iv) ==
    IF iv = "hour" THEN [r.timestamp EXCEPT !.minute = 0]
    ELSE IF iv = "day" THEN [r.timestamp EXCEPT !.hour = 0, !.minute = 0]
    ELSE IF iv = "week" THEN
        [day |-> r.timestamp.day - weekday(r.timestamp), hour |-> 0, minute |-> 0]
    ELSE r.timestamp

\* a mutant of Grouped: the append sits in an else branch, so the record that
\* opens a group is not stored in it
RECURSIVE GroupedElse(_, _)
GroupedElse(recs, iv) ==
    IF recs = <<>> THEN <<>>
    ELSE LET n == Len(recs)
             g == GroupedElse(SubSeq(recs, 1, n - 1), iv)
             r == recs[n]
             start == BucketStart(r, iv)
             key == isoformat(start)
         IN  IF \E i \in 1..Len(g) : g[i].timestamp = key
             THEN [i \in 1..Len(g) |->
                     IF g[i].timestamp = key
                     THEN [g[i] EXCEPT !.records = Append(@, r)]
                     ELSE g[i]]
             ELSE Append(g, [timestamp |-> key, records |-> <<>>, start_time |-> start])

\* a mutant of Grouped: a record whose key is already present replaces the
\* group's list instead of being appended to it
RECURSIVE GroupedOverwrite(_, _)
GroupedOverwrite(recs, iv) ==
    IF recs = <<>> THEN <<>>
    ELSE LET n == Len(recs)
             g == GroupedOverwrite(SubSeq(recs, 1, n - 1), iv)
             r == recs[n]
             start == BucketStart(r, iv)
             key == isoformat(start)
         IN  IF \E i \in 1..Len(g) : g[i].timestamp = key
             THEN [i \in 1..Len(g) |->
                     IF g[i].timestamp = key
                     THEN [g[i] EXCEPT !.records = <<r>>]
                     ELSE g[i]]
             ELSE Append(g, [timestamp |-> key, records |-> <<r>>, start_time |-> start])

\* the dict "grouped" after the first loop, as the list of its items in
\* insertion order
RECURSIVE Grouped(_, _)
Grouped(recs, iv) ==
    IF recs = <<>> THEN <<>>
    ELSE LET n == Len(recs)
             g == Grouped(SubSeq(recs, 1, n - 1), iv)
             r == recs[n]
             start == BucketStart(r, iv)
             key == isoformat(start)
         IN  IF \E i \in 1..Len(g) : g[i].timestamp = key
             THEN [i \in 1..Len(g) |->
                     IF g[i].timestamp = key
                     THEN [g[i] EXCEPT !.records = Append(@, r)]
                     ELSE g[i]]
             ELSE Append(g, [timestamp |-> key, records |-> <<r>>, start_time |-> start])

\* a mutant of degraded_threshold: the threshold in milliseconds is compared
\* with seconds, the division by 1000 left out
degraded_threshold_ms(cfg) == Get(cfg, "degraded_threshold", 200) * 1000000

\* bucket branch: app_config.get("degraded_threshold", 200) / 1000, in microseconds
degraded_threshold(cfg) == Get(cfg, "degraded_threshold", 200) * 1000

degraded_percentage_threshold(cfg) == Get(cfg, "degraded_percentage_threshold", 10)

RECURSIVE SumSeq(_)
SumSeq(s) == IF s = <<>> THEN 0 ELSE Head(s) + SumSeq(Tail(s))

\* sum(1 for r in recs if ...): flags[i] tells whether recs[i] passes the test
Count(flags) == Cardinality({i \in 1..Len(flags) : flags[i]})

\* a mutant of Status: the percentage test is not strict
StatusGe(down_count, issue_percentage, cfg) ==
    IF down_count > 0 THEN "down"
    ELSE IF issue_percentage.num >= degraded_percentage_threshold(cfg) * issue_percentage.den
         THEN "degraded"
    ELSE "up"

\* the three-way status rule of one bucket
Status(down_count, issue_percentage, cfg) ==
    IF down_count > 0 THEN "down"
    ELSE IF issue_percentage.num > degraded_percentage_threshold(cfg) * issue_percentage.den
         THEN "degraded"
    ELSE "up"

\* the node built from one group in the second loop
Node(key, recs, cfg) ==
    LET IsUp(r) == r.is_up
        HasTime(r) == r.response_time # None
        Degraded(r) ==
            /\ r.is_up
            /\ r.response_time # None
            /\ Val(r.response_time) > degraded_threshold(cfg)
        up_count == Count([i \in 1..Len(recs) |-> IsUp(recs[i])])
        down_count == Len(recs) - up_count
        response_times == SelectSeq(recs, HasTime)
        avg_response_time ==
            IF response_times # <<>>
            THEN Some([num |-> SumSeq([i \in 1..Len(response_times) |->
                                          Val(response_times[i].response_time)]),
                       den |-> Len(response_times)])
            ELSE None
        degraded_count == Count([i \in 1..Len(recs) |-> Degraded(recs[i])])
        total_issues == down_count + degraded_count
        issue_percentage ==
            IF recs # <<>> THEN [num |-> total_issues * 100, den |-> Len(recs)]
            ELSE [num |-> 0, den |-> 1]
        status == Status(down_count, issue_percentage, cfg)
    IN  [timestamp |-> key,
         is_up |-> status = "up",
         status |-> status,
         response_time |-> avg_response_time,
         count |-> Len(recs),
         avg_response_time |-> avg_response_time,
         degraded_count |-> degraded_count,
         down_count |-> down_count,
         issue_percentage |-> issue_percentage]

\* a mutant of KeyOrder: the groups are visited in insertion order
KeyOrderInserted(g) == [i \in 1..Len(g) |-> g[i].timestamp]

\* the order in which the second loop visits the groups
KeyOrder(g) == sorted([i \in 1..Len(g) |-> g[i].timestamp])

AggregateBuckets(recs, iv, cfg) ==
    LET g == Grouped(recs, iv)
        keys == KeyOrder(g)
        group(key) == g[CHOOSE i \in 1..Len(g) : g[i].timestamp = key]
    IN  [k \in 1..Len(keys) |-> Node(keys[k], group(keys[k]).records, cfg)]

aggregate_heartbeat_data(recs, iv, cfg) ==
    IF recs = <<>> THEN <<>>
    ELSE IF iv = "all" THEN AggregateAll(recs, cfg)
    ELSE AggregateBuckets(recs, iv, cfg)

----------------------------------------------------------------------------
(* The aggregator as a state machine: a caller with some input calls it *)

Init ==
    /\ records \in SeqsUpTo(MonitorRecords, MaxLen)
    /\ interval \in Intervals
    /\ app_config \in AppConfigs
    /\ aggregated = <<>>
    /\ pc = "call"
    /\ store = <<>>
    /\ now = 0
    /\ response = None
    /\ previous = None
    /\ frame = None
    /\ sessions = <<>>

Aggregate ==
    /\ pc = "call"
    /\ aggregated' = aggregate_heartbeat_data(records, interval, app_config)
    /\ pc' = "done"
    /\ UNCHANGED <<records, interval, app_config>>
    /\ UNCHANGED statusVars
    /\ UNCHANGED sessVars

Next == Aggregate

Spec == Init /\ [][Next]_vars

\* the same caller, with a bucketing interval and one configuration
InitOrder ==
    /\ Init
    /\ interval \in {"hour", "day", "week"}
    /\ app_config = [degraded_percentage_threshold |-> 50]

SpecOrder == InitOrder /\ [][Next]_vars

----------------------------------------------------------------------------
(* The status endpoints over the table monitor_records *)

\* datetime.now()
datetime_now == OfMinutes(now * 60)

\* datetime.now() - timedelta(hours=hours), in minutes
cutoff_time(hours) == (now - hours) * 60

\* a mutant of InWindow: the window excludes its lower bound
InWindowAfter(r, name, cutoff) ==
    /\ r.monitor_name = name
    /\ r.timestamp # None
    /\ Minutes(Val(r.timestamp)) > cutoff

\* a mutant of InWindow: the monitor name is not tested
InWindowAnyName(r, name, cutoff) ==
    /\ r.timestamp # None
    /\ Minutes(Val(r.timestamp)) >= cutoff

\* the filter condition monitor_name == name, timestamp >= cutoff_time: a NULL
\* timestamp compares as unknown and the row is left out
InWindow(r, name, cutoff) ==
    /\ r.monitor_name = name
    /\ r.timestamp # None
    /\ Minutes(Val(r.timestamp)) >= cutoff

\* db.query(MonitorRecord).filter(...): the matching rows in the order the
\* database scans the table (rowid order)
Filter(name, cutoff) ==
    LET Test(r) == InWindow(r, name, cutoff)
    IN  SelectSeq(store, Test)

\* the sorted list l with row r put behind the rows that come before it or tie
\* with it; dir is 1 for ascending and -1 for descending timestamps
RECURSIVE InsertSorted(_, _, _)
InsertSorted(l, r, dir) ==
    IF l = <<>> THEN <<r>>
    ELSE IF dir * Minutes(Val(r.timestamp)) < dir * Minutes(Val(Head(l).timestamp))
         THEN <<r>> \o l
    ELSE <<Head(l)>> \o InsertSorted(Tail(l), r, dir)

RECURSIVE SortBy(_, _)
SortBy(l, dir) ==
    IF l = <<>> THEN <<>>
    ELSE InsertSorted(SortBy(SubSeq(l, 1, Len(l) - 1), dir), l[Len(l)], dir)

\* .order_by(timestamp.asc()).all(): rows with equal timestamps stay in scan
\* order, which is the same for every query of an unchanged table
OrderAsc(l) == SortBy(l, 1)

\* .order_by(timestamp.desc()).all()
OrderDesc(l) == SortBy(l, -1)

\* one element of "records" / "history"
StatusRecord(r) ==
    [timestamp |-> isoformat(Val(r.timestamp)),
     status_code |-> r.status_code,
     is_up |-> r.is_up,
     response_time |-> r.response_time]

\* a mutant of GetMonitorRecords: the rows come oldest first
GetMonitorRecordsAsc(monitor_name, hours) ==
    OrderAsc(Filter(monitor_name, cutoff_time(hours)))

\* get_monitor_status: the query
GetMonitorRecords(monitor_name, hours) ==
    OrderDesc(Filter(monitor_name, cutoff_time(hours)))

\* get_monitor_status: what the handler returns for the rows it read
MonitorStatusResult(monitor_name, hours, recs) ==
    IF recs = <<>>
    THEN [op |-> "get_monitor_status", monitor_name |-> monitor_name, hours |-> hours,
          at |-> now, status |-> 404]
    ELSE [op |-> "get_monitor_status", monitor_name |-> monitor_name, hours |-> hours,
          at |-> now, status |-> 200,
          body |-> [monitor_name |-> monitor_name,
                    records |-> [i \in 1..Len(recs) |-> StatusRecord(recs[i])]]]

\* a mutant of Latest: the first row is taken for the newest
LatestFirst(recs) == IF recs # <<>> THEN Some(recs[1]) ELSE None

\* get_all_status: latest = records[-1] if records else None
Latest(recs) == IF recs # <<>> THEN Some(recs[Len(recs)]) ELSE None

\* get_all_status: monitor_data of one monitor
MonitorData(monitor, recs) ==
    LET latest == Latest(recs)
    IN  [name |-> monitor.name,
         url |-> monitor.url,
         current_status |->
            [is_up |-> IF latest # None THEN Some(Val(latest).is_up) ELSE None,
             status_code |-> IF latest # None THEN Val(latest).status_code ELSE None,
             response_time |-> IF latest # None THEN Val(latest).response_time ELSE None,
             timestamp |-> IF latest # None
                           THEN Some(isoformat(Val(Val(latest).timestamp))) ELSE None],
         history |-> [i \in 1..Len(recs) |->
                        [timestamp |-> isoformat(Val(recs[i].timestamp)),
                         is_up |-> recs[i].is_up,
                         status_code |-> recs[i].status_code,
                         response_time |-> recs[i].response_time]]]

\* get_all_status: the list the loop over monitors_config builds, one query per
\* configured monitor, in configuration order
MonitorsStatus(monitors, hours) ==
    [i \in 1..Len(monitors) |->
        MonitorData(monitors[i], OrderAsc(Filter(monitors[i].name, cutoff_time(hours))))]

StatusInit ==
    /\ records = <<>>
    /\ interval = "all"
    /\ app_config = [degraded_threshold |-> 200]
    /\ aggregated = <<>>
    /\ pc = "done"
    /\ store = <<>>
    /\ now = 0
    /\ response = None
    /\ previous = None
    /\ frame = None
    /\ sessions = <<>>

\* the monitoring loop stores the outcome of a check
InsertRecord ==
    /\ Len(store) < MaxStore
    /\ \E name \in MonitorNames, o \in Outcomes, t \in {Some(datetime_now), None} :
          store' = Append(store, [monitor_name |-> name, timestamp |-> t, is_up |-> o.is_up,
                                  status_code |-> o.status_code,
                                  response_time |-> o.response_time])
    /\ response' = None
    /\ previous' = None
    /\ UNCHANGED <<now>>
    /\ UNCHANGED aggVars
    /\ UNCHANGED sessVars

\* an hour passes
Tick ==
    /\ now < MaxNow
    /\ now' = now + 1
    /\ UNCHANGED <<store, response, previous>>
    /\ UNCHANGED aggVars
    /\ UNCHANGED sessVars

\* GET /api/status/{monitor_name}?hours=
get_monitor_status ==
    /\ \E monitor_name \in MonitorNames, hours \in Hours :
          response' = Some(MonitorStatusResult(monitor_name, hours,
                                               GetMonitorRecords(monitor_name, hours)))
    /\ previous' = None
    /\ UNCHANGED <<store, now>>
    /\ UNCHANGED aggVars
    /\ UNCHANGED sessVars

\* GET /api/status?hours=
get_all_status ==
    /\ \E hours \in Hours :
          response' = Some([op |-> "get_all_status", hours |-> hours, at |-> now,
                            status |-> 200,
                            body |-> [timestamp |-> isoformat(datetime_now),
                                      monitors |-> MonitorsStatus(monitors_config, hours)]])
    /\ previous' = IF response # None /\ Val(response).op = "get_all_status"
                   THEN response ELSE None
    /\ UNCHANGED <<store, now>>
    /\ UNCHANGED aggVars
    /\ UNCHANGED sessVars

StatusNext == InsertRecord \/ Tick \/ get_monitor_status \/ get_all_status

SpecStatus == StatusInit /\ [][StatusNext]_vars

----------------------------------------------------------------------------
(* The status endpoints step by step: the session each invocation borrows,   *)
(* and a query that may fail                                                 *)

\* db.close()
close(sess) == [k \in 1..Len(sess) |-> "closed"]

\* a mutant of AfterTry: no finally clause, the close follows the try block and
\* is skipped when an exception leaves it
AfterTryNoFinally(pending, sess) ==
    IF "exception" \in DOMAIN pending THEN sess ELSE close(sess)

\* finally: db.close() runs however the try block was left
AfterTry(pending, sess) == close(sess)

\* a query raises: the exception leaves the handler, no value is returned
StoreFailure(f) ==
    [op |-> f.op, monitor_name |-> f.monitor_name, hours |-> f.hours, at |-> now,
     status |-> 500, exception |-> "OperationalError"]

\* a request arrives: FastAPI calls the handler with its parameters
Call ==
    /\ IF frame = None THEN TRUE ELSE Val(frame).pc = "returned"
    /\ \E op \in {"get_monitor_status", "get_all_status"},
          monitor_name \in MonitorNames, hours \in Hours :
          /\ op = "get_all_status" => monitor_name = monitors_config[1].name
          /\ frame' = Some([op |-> op, monitor_name |-> monitor_name, hours |-> hours,
                            pc |-> "open", i |-> 1, queries |-> 0, failed_at |-> 0,
                            monitors_status |-> <<>>, pending |-> None])
    /\ sessions' = <<>>
    /\ response' = None
    /\ previous' = None
    /\ UNCHANGED <<store, now>>
    /\ UNCHANGED aggVars

\* db = database.SessionLocal()
OpenSession ==
    /\ frame # None
    /\ Val(frame).pc = "open"
    /\ sessions' = Append(sessions, "open")
    /\ frame' = Some([Val(frame) EXCEPT !.pc = "try"])
    /\ UNCHANGED statusVars
    /\ UNCHANGED aggVars

\* get_monitor_status, the try block: the query, then 404 or the body
MonitorQuery ==
    /\ frame # None
    /\ Val(frame).pc = "try"
    /\ Val(frame).op = "get_monitor_status"
    /\ LET f == Val(frame)
           result == MonitorStatusResult(f.monitor_name, f.hours,
                                         GetMonitorRecords(f.monitor_name, f.hours))
       IN  frame' = Some([f EXCEPT !.pc = "finally", !.queries = @ + 1,
                                   !.pending = Some(result)])
    /\ UNCHANGED sessions
    /\ UNCHANGED statusVars
    /\ UNCHANGED aggVars

\* get_all_status, one turn of the loop over monitors_config: the query of
\* monitor i and its monitor_data
LoopQuery ==
    /\ frame # None
    /\ Val(frame).pc = "try"
    /\ Val(frame).op = "get_all_status"
    /\ Val(frame).i <= Len(monitors_config)
    /\ LET f == Val(frame)
           monitor == monitors_config[f.i]
           recs == OrderAsc(Filter(monitor.name, cutoff_time(f.hours)))
       IN  frame' = Some([f EXCEPT !.i = @ + 1, !.queries = @ + 1,
                                   !.monitors_status = Append(@, MonitorData(monitor, recs))])
    /\ UNCHANGED sessions
    /\ UNCHANGED statusVars
    /\ UNCHANGED aggVars

\* the query of either handler raises (the database is unreachable or locked):
\* nothing catches the exception, control goes to the finally clause
QueryFails ==
    /\ frame # None
    /\ Val(frame).pc = "try"
    /\ Val(frame).op = "get_all_status" => Val(frame).i <= Len(monitors_config)
    /\ LET f == Val(frame)
       IN  frame' = Some([f EXCEPT !.pc = "finally", !.queries = @ + 1,
                                   !.failed_at = f.queries + 1,
                                   !.pending = Some(StoreFailure(f))])
    /\ UNCHANGED sessions
    /\ UNCHANGED statusVars
    /\ UNCHANGED aggVars

\* get_all_status after the loop: the return value
LoopDone ==
    /\ frame # None
    /\ Val(frame).pc = "try"
    /\ Val(frame).op = "get_all_status"
    /\ Val(frame).i > Len(monitors_config)
    /\ LET f == Val(frame)
           result == [op |-> "get_all_status", hours |-> f.hours, at |-> now,
                      status |-> 200,
                      body |-> [timestamp |-> isoformat(datetime_now),
                                monitors |-> f.monitors_status]]
       IN  frame' = Some([f EXCEPT !.pc = "finally", !.pending = Some(result)])
    /\ UNCHANGED sessions
    /\ UNCHANGED statusVars
    /\ UNCHANGED aggVars

\* the finally clause, then the handler returns its value or the exception
\* leaves it
Return ==
    /\ frame # None
    /\ Val(frame).pc = "finally"
    /\ sessions' = AfterTry(Val(Val(frame).pending), sessions)
    /\ response' = Val(frame).pending
    /\ frame' = Some([Val(frame) EXCEPT !.pc = "returned"])
    /\ UNCHANGED <<store, now, previous>>
    /\ UNCHANGED aggVars

SessionNext ==
    \/ InsertRecord
    \/ Call
    \/ OpenSession
    \/ MonitorQuery
    \/ LoopQuery
    \/ QueryFails
    \/ LoopDone
    \/ Return

SpecSession == StatusInit /\ [][SessionNext]_vars

----------------------------------------------------------------------------
(* Properties of aggregate_heartbeat_data *)

Bucketed == pc = "done" /\ interval \in {"hour", "day", "week"}

Buckets == 1..Len(aggregated)
Inputs == 1..Len(records)

Width(iv) == IF iv = "hour" THEN 60 ELSE IF iv = "day" THEN 24 * 60 ELSE 7 * 24 * 60

\* start of the hour, of the calendar day, or 00:00 of the most recent Monday
Floor(t, iv) == Minutes(t) - (Minutes(t) % Width(iv))

\* the input records that belong to bucket k of the result
Members(k) == {i \in Inputs : isoformat(OfMinutes(Floor(records[i].timestamp, interval)))
                                = aggregated[k].timestamp}

\* the configured thresholds, read off the configuration
ThresholdMs == IF "degraded_threshold" \in DOMAIN app_config
               THEN app_config.degraded_threshold ELSE 200

ThresholdPct == IF "degraded_percentage_threshold" \in DOMAIN app_config
                THEN app_config.degraded_percentage_threshold ELSE 10

\* is_up AND response_time present AND response_time > degraded_threshold_ms / 1000
SlowUp(r) == r.is_up /\ r.response_time # None /\ Val(r.response_time) > ThresholdMs * 1000

\* C1: for Hour, Day and Week every returned bucket is Down if its down_count > 0,
\* else Degraded if issue_percentage = (down_count + degraded_count) / count * 100
\* is strictly greater than degraded_percentage_threshold, else Up; a bucket that
\* holds an is_up = false record is Down, and one whose percentage equals the
\* threshold is Up.
C1_StatusRule ==
    Bucketed =>
        \A k \in Buckets :
            LET b == aggregated[k]
                p == b.issue_percentage
            IN  /\ p.num * b.count = (b.down_count + b.degraded_count) * 100 * p.den
                /\ b.status = IF b.down_count > 0 THEN "down"
                              ELSE IF p.num > ThresholdPct * p.den THEN "degraded"
                              ELSE "up"
                /\ (\E i \in Members(k) : ~records[i].is_up) => b.status = "down"
                /\ (b.down_count = 0 /\ p.num = ThresholdPct * p.den) => b.status = "up"
                /\ b.is_up = (b.status = "up")

\* a bucket without a down record whose issue percentage equals the threshold
C1_Witness ==
    /\ Bucketed
    /\ \E k \in Buckets :
          /\ aggregated[k].down_count = 0
          /\ aggregated[k].degraded_count > 0
          /\ aggregated[k].issue_percentage.num
               = ThresholdPct * aggregated[k].issue_percentage.den
          /\ aggregated[k].status = "up"
    /\ \E k \in Buckets : aggregated[k].status = "degraded"

RECURSIVE SumCounts(_)
SumCounts(s) == IF s = <<>> THEN 0 ELSE Head(s).count + SumCounts(Tail(s))

\* C2: for Hour, Day and Week (the empty list included) the counts of the returned
\* buckets sum to the number of input records, every record is in exactly one
\* bucket, and every bucket has count >= 1.
C2_CountsSum ==
    Bucketed =>
        /\ SumCounts(aggregated) = Len(records)
        /\ \A i \in Inputs : Cardinality({k \in Buckets : i \in Members(k)}) = 1
        /\ \A k \in Buckets : aggregated[k].count >= 1
                              /\ aggregated[k].count = Cardinality(Members(k))

\* three records in two buckets
C2_Witness ==
    /\ Bucketed
    /\ Len(records) = 3
    /\ Len(aggregated) = 2
    /\ \E k \in Buckets : aggregated[k].count = 2

RECURSIVE Reorderings(_)
Reorderings(s) ==
    IF s = <<>> THEN {<<>>}
    ELSE UNION { {<<s[i]>> \o p :
                    p \in Reorderings(SubSeq(s, 1, i - 1) \o SubSeq(s, i + 1, Len(s)))} :
                 i \in 1..Len(s) }

\* what C3 compares of a bucket
View(b) == [start |-> b.timestamp, count |-> b.count, down_count |-> b.down_count,
            degraded_count |-> b.degraded_count, issue_percentage |-> b.issue_percentage,
            status |-> b.status]

BucketSet(s) == {View(s[k]) : k \in 1..Len(s)}

\* C3: for Hour, Day and Week every permutation of the input records gives the same
\* set of buckets (start, count, down_count, degraded_count, issue_percentage, status).
C3_OrderIndependent ==
    Bucketed =>
        \A p \in Reorderings(records) :
            BucketSet(aggregate_heartbeat_data(p, interval, app_config)) = BucketSet(aggregated)

\* a bucket of an up and a down record, the input having more than one order
C3_Witness ==
    /\ Bucketed
    /\ Cardinality(Reorderings(records)) > 1
    /\ \E k \in Buckets : aggregated[k].count >= 2 /\ aggregated[k].down_count = 1

\* C4: for Hour, Day and Week the buckets come in strictly ascending order of start
\* time, whatever the input order, and a bucket's start is the truncation of its
\* members' timestamps.
C4_Ascending ==
    Bucketed =>
        /\ \A k \in Buckets : Members(k) # {}
        /\ \A i \in Inputs : \E k \in Buckets : i \in Members(k)
        /\ \A k, l \in Buckets : \A i \in Members(k), j \in Members(l) :
              (k < l) <=> (Floor(records[i].timestamp, interval)
                            < Floor(records[j].timestamp, interval))

\* three buckets from an input that is in descending order
C4_Witness ==
    /\ Bucketed
    /\ Len(aggregated) = 3
    /\ Len(records) = 3
    /\ Minutes(records[1].timestamp) > Minutes(records[2].timestamp)
    /\ Minutes(records[2].timestamp) > Minutes(records[3].timestamp)

\* C5: for All the output is the input element by element: same length, the i-th
\* node describes the i-th record, count 1, down_count 1 iff not is_up,
\* degraded_count 1 iff is_up and response_time present and above the threshold;
\* no status is computed.
C5_AllPassThrough ==
    (pc = "done" /\ interval = "all") =>
        /\ Len(aggregated) = Len(records)
        /\ \A i \in Inputs :
              LET a == aggregated[i]
                  r == records[i]
              IN  /\ a.timestamp = isoformat(r.timestamp)
                  /\ a.is_up = r.is_up
                  /\ a.response_time = r.response_time
                  /\ a.status_code = r.status_code
                  /\ a.count = 1
                  /\ a.down_count = IF r.is_up THEN 0 ELSE 1
                  /\ a.degraded_count = IF SlowUp(r) THEN 1 ELSE 0
                  /\ "status" \notin DOMAIN a

\* a down record with a slow response beside a degraded one
C5_Witness ==
    /\ pc = "done"
    /\ interval = "all"
    /\ \E i \in Inputs : /\ ~records[i].is_up
                          /\ records[i].response_time # None
                          /\ Val(records[i].response_time) > ThresholdMs * 1000
                          /\ aggregated[i].degraded_count = 0
    /\ \E i \in Inputs : aggregated[i].degraded_count = 1

RECURSIVE SumOver(_, _, _)
SumOver(S, s, field) ==
    IF S = {} THEN 0
    ELSE LET i == CHOOSE i \in S : TRUE
         IN  s[i][field] + SumOver(S \ {i}, s, field)

\* C6: the bucketed path classifies each record as the All path does: a bucket's
\* degraded_count and down_count are the sums of its members' All-mode
\* degraded_count and down_count, so degraded_count <= count - down_count.
C6_SamePredicate ==
    Bucketed =>
        LET all == aggregate_heartbeat_data(records, "all", app_config)
        IN  \A k \in Buckets :
                /\ aggregated[k].degraded_count = SumOver(Members(k), all, "degraded_count")
                /\ aggregated[k].down_count = SumOver(Members(k), all, "down_count")
                /\ aggregated[k].degraded_count
                     <= aggregated[k].count - aggregated[k].down_count
                /\ aggregated[k].degraded_count
                     = Cardinality({i \in Members(k) : SlowUp(records[i])})

\* a bucket with a degraded record, a down record and a fast one
C6_Witness ==
    /\ Bucketed
    /\ \E k \in Buckets : /\ aggregated[k].count = 3
                           /\ aggregated[k].degraded_count = 1
                           /\ aggregated[k].down_count = 1

----------------------------------------------------------------------------
(* Properties of the status endpoints *)

IsAll == response # None /\ Val(response).op = "get_all_status"
IsOne == response # None /\ Val(response).op = "get_monitor_status"

\* whole hours from Monday 2024-01-01 00:00 to the timestamp of a row
HoursOf(r) == Val(r.timestamp).day * 24 + Val(r.timestamp).hour

\* the rows (by position in the table) of a monitor inside the lookback window of
\* a call made at hour at
Window(name, hours, at) ==
    {k \in 1..Len(store) : /\ store[k].monitor_name = name
                           /\ store[k].timestamp # None
                           /\ HoursOf(store[k]) >= at - hours}

\* every list of the elements of S, each once
RECURSIVE Listings(_)
Listings(S) ==
    IF S = {} THEN {<<>>}
    ELSE UNION { {<<k>> \o l : l \in Listings(S \ {k})} : k \in S }

\* a row as the endpoints report it
Entry(r) == [timestamp |-> isoformat(Val(r.timestamp)), is_up |-> r.is_up,
             status_code |-> r.status_code, response_time |-> r.response_time]

\* l lists the rows of w, each once, and h reports l row by row
Reports(h, l) == Len(h) = Len(l) /\ \A j \in 1..Len(l) : h[j] = Entry(store[l[j]])

Unknown(c) ==
    c.is_up = None /\ c.status_code = None /\ c.response_time = None /\ c.timestamp = None

\* C7: get_all_status returns one entry per configured monitor, in configuration
\* order, for any store contents and never fails; a monitor without a record in
\* the window has an all-absent current_status and an empty history; records of
\* monitors that are not configured never appear.
C7_OneEntryPerMonitor ==
    IsAll =>
        LET r == Val(response)
            m == r.body.monitors
        IN  /\ r.status = 200
            /\ Len(m) = Len(monitors_config)
            /\ \A i \in 1..Len(m) :
                 LET w == Window(monitors_config[i].name, r.hours, r.at)
                 IN  /\ m[i].name = monitors_config[i].name
                     /\ m[i].url = monitors_config[i].url
                     /\ w = {} => Unknown(m[i].current_status) /\ m[i].history = <<>>
                     /\ Len(m[i].history) = Cardinality(w)
                     /\ \A j \in 1..Len(m[i].history) :
                          \E k \in w : m[i].history[j] = Entry(store[k])

\* a row of a monitor that is not configured lies in the window, one configured
\* monitor has data and the other has none
C7_Witness ==
    /\ IsAll
    /\ Window("old", Val(response).hours, Val(response).at) # {}
    /\ \E i \in 1..Len(monitors_config) : Val(response).body.monitors[i].history # <<>>
    /\ \E i \in 1..Len(monitors_config) :
          /\ Val(response).body.monitors[i].history = <<>>
          /\ Unknown(Val(response).body.monitors[i].current_status)

\* C8: get_monitor_status answers 404 exactly when the store holds no record of
\* the monitor with timestamp >= now - hours; otherwise it returns all and only the
\* monitor's records inside the window, newest first, so never an empty list.
C8_NotFoundIffNoRecord ==
    IsOne =>
        LET r == Val(response)
            w == Window(r.monitor_name, r.hours, r.at)
        IN  /\ r.status \in {200, 404}
            /\ (r.status = 404) <=> (w = {})
            /\ r.status = 200 =>
                 /\ r.body.monitor_name = r.monitor_name
                 /\ r.body.records # <<>>
                 /\ \E l \in Listings(w) :
                      /\ Reports(r.body.records, l)
                      /\ \A j \in 1..(Len(l) - 1) : HoursOf(store[l[j]]) >= HoursOf(store[l[j + 1]])

\* two records of different hours are returned
C8_Witness ==
    /\ IsOne
    /\ Val(response).status = 200
    /\ Len(Val(response).body.records) = 2
    /\ Val(response).body.records[1].timestamp # Val(response).body.records[2].timestamp

Repeated ==
    /\ IsAll
    /\ previous # None
    /\ Val(previous).hours = Val(response).hours

\* C10 as stated: two sequential get_all_status calls with the same hours and an
\* unchanged store return the same current_status for every monitor.
C10_SameCurrentStatus ==
    Repeated =>
        \A i \in 1..Len(monitors_config) :
            Val(response).body.monitors[i].current_status
                = Val(previous).body.monitors[i].current_status

\* C10 amended: two sequential get_all_status calls with the same hours and an
\* unchanged store return the same current_status for every monitor whose records
\* inside the lookback window are the same at both calls, that is, unless a record
\* has left the window as the clock advanced between the calls.
C10_SameCurrentStatusSameWindow ==
    Repeated =>
        \A i \in 1..Len(monitors_config) :
            LET name == monitors_config[i].name
                w1 == Window(name, Val(previous).hours, Val(previous).at)
                w2 == Window(name, Val(response).hours, Val(response).at)
            IN  w1 = w2 =>
                    Val(response).body.monitors[i].current_status
                        = Val(previous).body.monitors[i].current_status

\* the clock advanced between the two calls and a monitor kept its window
C10_Witness ==
    /\ Repeated
    /\ Val(response).at > Val(previous).at
    /\ \E i \in 1..Len(monitors_config) :
          LET w2 == Window(monitors_config[i].name, Val(response).hours, Val(response).at)
          IN  /\ w2 # {}
              /\ w2 = Window(monitors_config[i].name, Val(previous).hours, Val(previous).at)
              /\ ~Unknown(Val(response).body.monitors[i].current_status)

----------------------------------------------------------------------------
(* Properties of the session handling of the status endpoints *)

\* the invocation in progress has returned to its caller
Returned == frame # None /\ Val(frame).pc = "returned"

\* the number of queries a handler issues when none of them fails
QueriesOf(op) == IF op = "get_all_status" THEN Len(monitors_config) ELSE 1

\* in every state of an invocation: no session before SessionLocal(), exactly one
\* open session inside the try block, exactly one closed session on return; a
\* query failure ends the queries and is what the caller gets, without a body
SessionBorrowed ==
    frame # None =>
        LET f == Val(frame)
        IN  /\ f.pc = "open" => sessions = <<>>
            /\ f.pc \in {"try", "finally"} => sessions = <<"open">>
            /\ f.pc = "returned" => sessions = <<"closed">>
            /\ f.failed_at > 0 =>
                 /\ f.pc \in {"finally", "returned"}
                 /\ f.queries = f.failed_at
                 /\ "exception" \in DOMAIN Val(f.pending)
                 /\ "body" \notin DOMAIN Val(f.pending)
            /\ f.pc = "returned" /\ response # None =>
                 /\ response = f.pending
                 /\ f.failed_at = 0 =>
                      /\ "exception" \notin DOMAIN Val(response)
                      /\ f.queries = QueriesOf(f.op)
                      /\ ("body" \in DOMAIN Val(response)) <=> (Val(response).status = 200)

\* a step of an invocation leaves the table as it is
ReadOnly == frame' # frame => store' = store

\* C11: every invocation of get_monitor_status and of get_all_status opens exactly
\* one store session and has closed it when the call returns, on the normal
\* return, on the 404 outcome and when a query fails part-way through the loop
\* over the monitors; the failure reaches the caller after no further query and
\* without a partial or default result; no step of an invocation writes to the
\* store.
C11_SessionClosedOnEveryPath == []SessionBorrowed /\ [][ReadOnly]_vars

\* get_all_status has returned after its second query failed: the first monitor's
\* data had been collected, the caller gets the failure, the session is closed
C11_Witness ==
    /\ Returned
    /\ Val(frame).op = "get_all_status"
    /\ Val(frame).failed_at = 2
    /\ Len(Val(frame).monitors_status) = 1
    /\ Val(frame).monitors_status[1].history # <<>>
    /\ response # None
    /\ "exception" \in DOMAIN Val(response)
    /\ sessions = <<"closed">>

====
